---- MODULE Spec2Model ----
(***************************************************************************)
(* Model of the calendar reconciler of tennis-calendars (src/main.py).     *)
(*                                                                         *)
(* One calendar is reconciled by repeated runs of update_calendar_events.  *)
(* Instants are integers counted in clock ticks; a second is               *)
(* TicksPerSecond ticks, so datetime.now() can fall between two whole      *)
(* seconds (its microsecond part is modelled at that resolution).          *)
(*                                                                         *)
(* An ISO-8601 text is the record [body, frac, sfx, cut]:                  *)
(*   body  the instant of the "YYYY-MM-DDTHH:MM:SS" part, in ticks,        *)
(*   frac  the ticks of the ".ffffff" part (0: the part is not printed),   *)
(*   sfx   the characters that follow, one string per character,           *)
(*   cut   how many characters slicing has removed from the end of the     *)
(*         body and fraction part.                                         *)
(* Two texts are equal as Python strings iff the records are equal.        *)
(*                                                                         *)
(* The environment: the Match objects (common.match) carry a name, a       *)
(* whole-second UTC start and a status; the calendar provider stores the   *)
(* timestamps it is sent as whole seconds and lists them spelled with "Z"  *)
(* (the spelling the comparison functions and the strptime format of       *)
(* src/main.py rely on); nothing but the reconciler writes the calendar.   *)
(* An exception that leaves update_calendar_events is caught nowhere       *)
(* (main catches KeyboardInterrupt only), so the process ends: pc becomes  *)
(* "crashed".                                                              *)
(***************************************************************************)
EXTENDS Integers, Sequences, FiniteSets, TLC

VARIABLES now, events, pc, matches, idx, snapshot, calls, hist, env, uc

vars == <<now, events, pc, matches, idx, snapshot, calls, hist, env, uc>>

----------------------------------------------------------------------------
(* Units and program constants *)

TicksPerSecond == 2
Second == TicksPerSecond
Minute == 60 * Second
Day == 1440 * Minute

MATCH_DEFAULT_DURATION_MINUTES == 90
MATCH_EXTEND_MINUTES == 20

IsoSecondsLen == 19
IsoFractionLen == 7

\* the value the counter id is compared with (line 379)
DevLimit == 10

\* Google Calendar colorId of each match status (Lavender, Sage, Grape,
\* Graphite, Basil)
ColorOf(status) ==
    CASE status = "interrupted" -> "1"
      [] status = "notstarted"  -> "2"
      [] status = "finished"    -> "3"
      [] status = "cancelled"   -> "8"
      [] status = "live"        -> "10"

----------------------------------------------------------------------------
(* Bounds of the model *)

MaxCycles == 2
MaxBigSteps == 2
MaxSmallSteps == 1
MaxTournaments == 12

Names == {"A", "B"}
T0 == 22 * 60 * Minute + 40 * Minute
BigStep == 50 * Minute
Starts == {22 * 60 * Minute, 23 * 60 * Minute}
MatchStatuses == {"notstarted", "live", "finished"}

----------------------------------------------------------------------------
(* Python strings and datetimes *)

Min(a, b) == IF a < b THEN a ELSE b
Max(a, b) == IF a > b THEN a ELSE b

Zulu == <<"Z">>
PlusColon == <<"+", "0", "0", ":", "0", "0">>
PlusPlain == <<"+", "0", "0", "0", "0">>

\* datetime.isoformat() of an aware UTC datetime: the fraction is printed
\* only when the microsecond part is not zero; the offset is "+00:00"
isoformat(t) ==
    [body |-> t - (t % Second), frac |-> t % Second, sfx |-> PlusColon, cut |-> 0]

\* the instant an ISO text denotes
Instant(s) == s.body + s.frac

BodyLen(s) ==
    IsoSecondsLen + (IF s.frac # 0 THEN IsoFractionLen ELSE 0) - s.cut

PyLen(s) == BodyLen(s) + Len(s.sfx)

\* s[:k], with Python's meaning of a negative k
PySlice(s, k) ==
    LET kk == IF k < 0 THEN Max(PyLen(s) + k, 0) ELSE Min(k, PyLen(s))
    IN  IF kk >= BodyLen(s)
        THEN [s EXCEPT !.sfx = SubSeq(s.sfx, 1, kk - BodyLen(s))]
        ELSE [s EXCEPT !.sfx = << >>, !.cut = s.cut + (BodyLen(s) - kk)]

\* s.rfind(c) for a character c that cannot occur in the date and time part
PyRFind(s, c) ==
    LET hits == {i \in 1..Len(s.sfx) : s.sfx[i] = c}
    IN  IF hits = {} THEN -1
        ELSE BodyLen(s) + (CHOOSE i \in hits : \A j \in hits : j <= i) - 1

\* google_date.replace("Z", "+0000")
ReplaceZ(s) == IF s.sfx = Zulu THEN [s EXCEPT !.sfx = PlusPlain] ELSE s

\* strptime(..., "%Y-%m-%dT%H:%M:%S%z") raises ValueError unless the text is
\* whole seconds followed by a UTC offset
Parsable(s) ==
    /\ s.frac = 0
    /\ s.cut = 0
    /\ ReplaceZ(s).sfx \in {PlusPlain, PlusColon}

from_google_date_to_datetime(s) == ReplaceZ(s).body

\* mutant: the start texts compared as they are
different_start_times_raw(old, new) == old.start # new

different_start_times(old, new) ==
    PySlice(old.start, -1) # PySlice(new, PyRFind(new, "+"))

\* mutant: both texts lose their last character only
different_end_times_lastchar(old, new) ==
    PySlice(old.end, -1) # PySlice(new, -1)

different_end_times(old, new) ==
    PySlice(old.end, -1) # PySlice(new, PyRFind(new, "+"))

\* mutant: a change of color alone goes unnoticed
different_colors_never(old, new) == FALSE

different_colors(old, new) == old.colorId # new

----------------------------------------------------------------------------
(* Match (common.match) *)

is_still_going(m) == m.status = "live"
is_finished(m) == m.status = "finished"
color(m) == ColorOf(m.status)

MatchSet == [name : Names, start : Starts, status : MatchStatuses]

\* the downloaded match lists the model draws from: one match "A" (not
\* started with either start, or live or finished with the first start), or
\* two live matches (the same name twice, or two names in either order)
Single ==
    {m \in MatchSet : m.name = "A" /\ (m.start = 22 * 60 * Minute \/ m.status = "notstarted")}
Paired == {m \in MatchSet : m.start = 22 * 60 * Minute /\ m.status = "live"}
MatchLists ==
    {<< m >> : m \in Single}
        \cup {<< m, k >> : m \in {j \in Paired : j.name = "A"}, k \in Paired}
        \cup {<< m, k >> : m \in Paired, k \in {j \in Paired : j.name = "A"}}

----------------------------------------------------------------------------
(* The calendar provider (service.events()) *)

\* how the provider spells a timestamp it has stored: whole seconds, "Z"
Stored(s) == [body |-> s.body, frac |-> 0, sfx |-> Zulu, cut |-> 0]

StoreEvent(c, id) ==
    [id |-> id, summary |-> c.summary, start |-> Stored(c.start),
     end |-> Stored(c.end), colorId |-> c.colorId]

\* events().insert(...).execute() and events().update(...).execute()
ProviderApply(evs, c) ==
    IF c.op = "insert"
    THEN Append(evs, StoreEvent(c, Len(evs) + 1))
    ELSE [evs EXCEPT ![c.id] = StoreEvent(c, c.id)]

RECURSIVE ProviderApplyAll(_, _)
ProviderApplyAll(evs, cs) ==
    IF cs = << >> THEN evs
    ELSE ProviderApplyAll(ProviderApply(evs, Head(cs)), Tail(cs))

\* events().list(calendarId, maxResults=100, timeMin=midnight): the events
\* that end after timeMin (the model stays far below 100 events)
ListEvents(evs, timeMin) ==
    SelectSeq(evs, LAMBDA e : Instant(e.end) > Instant(timeMin))

\* midnight of today, as an ISO text with "Z"
midnight(t) == [body |-> t - (t % Day), frac |-> 0, sfx |-> Zulu, cut |-> 0]

----------------------------------------------------------------------------
(* The reconciler functions.  Each returns                                 *)
(*   kind   what the function did,                                         *)
(*   crash  TRUE when it raised,                                           *)
(*   calls  the insert and update calls it made, in order,                 *)
(*   local  the existing event dict as the function left it,               *)
(*   end    the end instant it computed (0 when it raised).                *)

InsertCall(m, start, end) ==
    [op |-> "insert", id |-> 0, summary |-> m.name, start |-> start,
     end |-> end, colorId |-> color(m)]

\* mutant: every update is addressed to the first event of the calendar
UpdateCall_first(ev) ==
    [op |-> "update", id |-> 1, summary |-> ev.summary, start |-> ev.start,
     end |-> ev.end, colorId |-> ev.colorId]

UpdateCall(ev) ==
    [op |-> "update", id |-> ev.id, summary |-> ev.summary, start |-> ev.start,
     end |-> ev.end, colorId |-> ev.colorId]

Raised(kind, local) ==
    [kind |-> kind, crash |-> TRUE, calls |-> << >>, local |-> local, end |-> 0]

\* mutant: no extension of a live match at creation
create_event_noextend(m, t) ==
    LET base == m.start + MATCH_DEFAULT_DURATION_MINUTES * Minute
    IN  [kind |-> "create", crash |-> FALSE,
         calls |-> << InsertCall(m, isoformat(m.start), isoformat(base)) >>,
         local |-> << >>, end |-> base]

\* mutant: the default duration is counted from the clock
create_event_from_now(m, t) ==
    LET base == t + MATCH_DEFAULT_DURATION_MINUTES * Minute
        match_time_end ==
            IF is_still_going(m) /\ base < t
            THEN t + MATCH_EXTEND_MINUTES * Minute
            ELSE base
    IN  [kind |-> "create", crash |-> FALSE,
         calls |-> << InsertCall(m, isoformat(m.start), isoformat(match_time_end)) >>,
         local |-> << >>, end |-> match_time_end]

\* mutant: the event of a finished match is created ending at the clock
create_event_finished_now(m, t) ==
    LET base == m.start + MATCH_DEFAULT_DURATION_MINUTES * Minute
        match_time_end ==
            IF is_still_going(m) /\ base < t
            THEN t + MATCH_EXTEND_MINUTES * Minute
            ELSE IF is_finished(m) /\ base > t /\ t > m.start THEN t
            ELSE base
    IN  [kind |-> "create", crash |-> FALSE,
         calls |-> << InsertCall(m, isoformat(m.start), isoformat(match_time_end)) >>,
         local |-> << >>, end |-> match_time_end]

create_event(m, t) ==
    LET base == m.start + MATCH_DEFAULT_DURATION_MINUTES * Minute
        match_time_end ==
            IF is_still_going(m) /\ base < t
            THEN t + MATCH_EXTEND_MINUTES * Minute
            ELSE base
    IN  [kind |-> "create", crash |-> FALSE,
         calls |-> << InsertCall(m, isoformat(m.start), isoformat(match_time_end)) >>,
         local |-> << >>, end |-> match_time_end]

\* mutant: the comparison with the clock is the wrong way round
update_event_end_flipped(m, existing_event, t) ==
    LET expected_duration == m.start + MATCH_DEFAULT_DURATION_MINUTES * Minute
        e0 == from_google_date_to_datetime(existing_event.end)
        e1 == IF e0 < expected_duration THEN expected_duration ELSE e0
    IN  IF is_still_going(m) /\ e1 > t
        THEN t + MATCH_EXTEND_MINUTES * Minute
        ELSE e1

\* mutant: when the scheduled start differs from the stored start the end
\* follows it, in either direction
update_event_end_follows(m, existing_event, t) ==
    LET expected_duration == m.start + MATCH_DEFAULT_DURATION_MINUTES * Minute
        e0 == from_google_date_to_datetime(existing_event.end)
        e1 == IF Instant(existing_event.start) # m.start \/ e0 < expected_duration
              THEN expected_duration ELSE e0
    IN  IF is_still_going(m) /\ e1 < t
        THEN t + MATCH_EXTEND_MINUTES * Minute
        ELSE e1

\* mutant: a live match that has outrun its end is extended by the default
\* duration
update_event_end_longext(m, existing_event, t) ==
    LET expected_duration == m.start + MATCH_DEFAULT_DURATION_MINUTES * Minute
        e0 == from_google_date_to_datetime(existing_event.end)
        e1 == IF e0 < expected_duration THEN expected_duration ELSE e0
    IN  IF is_still_going(m) /\ e1 < t
        THEN t + MATCH_DEFAULT_DURATION_MINUTES * Minute
        ELSE e1

\* lines 105-122: the end time of the update path
update_event_end(m, existing_event, t) ==
    LET expected_duration == m.start + MATCH_DEFAULT_DURATION_MINUTES * Minute
        e0 == from_google_date_to_datetime(existing_event.end)
        e1 == IF e0 < expected_duration THEN expected_duration ELSE e0
    IN  IF is_still_going(m) /\ e1 < t
        THEN t + MATCH_EXTEND_MINUTES * Minute
        ELSE e1

\* mutant: the times and the color are sent in two update calls
update_event_split(m, existing_event, t) ==
    IF ~Parsable(existing_event.end)
    THEN Raised("error", << existing_event >>)
    ELSE
    LET match_time_start == isoformat(m.start)
        end_instant == update_event_end(m, existing_event, t)
        event_time_end == isoformat(end_instant)
        timed == [existing_event EXCEPT !.start = match_time_start,
                                        !.end = event_time_end]
        changed == [timed EXCEPT !.colorId = color(m)]
    IN  IF \/ different_start_times(existing_event, match_time_start)
           \/ different_end_times(existing_event, event_time_end)
           \/ different_colors(existing_event, color(m))
        THEN [kind |-> "update", crash |-> FALSE,
              calls |-> << UpdateCall(timed), UpdateCall(changed) >>,
              local |-> << changed >>, end |-> end_instant]
        ELSE [kind |-> "noop", crash |-> FALSE, calls |-> << >>,
              local |-> << existing_event >>, end |-> end_instant]

\* mutant: the update leaves the event's start as it was
update_event_keepstart(m, existing_event, t) ==
    IF ~Parsable(existing_event.end)
    THEN Raised("error", << existing_event >>)
    ELSE
    LET match_time_start == isoformat(m.start)
        end_instant == update_event_end(m, existing_event, t)
        event_time_end == isoformat(end_instant)
        changed == [existing_event EXCEPT !.end = event_time_end,
                                          !.colorId = color(m)]
    IN  IF \/ different_start_times(existing_event, match_time_start)
           \/ different_end_times(existing_event, event_time_end)
           \/ different_colors(existing_event, color(m))
        THEN [kind |-> "update", crash |-> FALSE,
              calls |-> << UpdateCall(changed) >>,
              local |-> << changed >>, end |-> end_instant]
        ELSE [kind |-> "noop", crash |-> FALSE, calls |-> << >>,
              local |-> << existing_event >>, end |-> end_instant]

update_event(m, existing_event, t) ==
    IF ~Parsable(existing_event.end)
    THEN Raised("error", << existing_event >>)
    ELSE
    LET match_time_start == isoformat(m.start)
        end_instant == update_event_end(m, existing_event, t)
        event_time_end == isoformat(end_instant)
        changed == [existing_event EXCEPT !.start = match_time_start,
                                          !.end = event_time_end,
                                          !.colorId = color(m)]
    IN  IF \/ different_start_times(existing_event, match_time_start)
           \/ different_end_times(existing_event, event_time_end)
           \/ different_colors(existing_event, color(m))
        THEN [kind |-> "update", crash |-> FALSE,
              calls |-> << UpdateCall(changed) >>,
              local |-> << changed >>, end |-> end_instant]
        ELSE [kind |-> "noop", crash |-> FALSE, calls |-> << >>,
              local |-> << existing_event >>, end |-> end_instant]

\* mutant: the end is pulled back to the clock also when it is the clock
update_finished_event_ge(m, existing_event, t) ==
    IF ~Parsable(existing_event.start) \/ ~Parsable(existing_event.end)
    THEN Raised("error", << existing_event >>)
    ELSE
    LET event_time_start == from_google_date_to_datetime(existing_event.start)
        event_time_end == from_google_date_to_datetime(existing_event.end)
        truncated == [existing_event EXCEPT !.end = isoformat(t),
                                            !.colorId = color(m)]
        recolored == [existing_event EXCEPT !.colorId = color(m)]
    IN  IF event_time_end >= t /\ t > event_time_start
        THEN [kind |-> "update_finished", crash |-> FALSE,
              calls |-> << UpdateCall(truncated) >>,
              local |-> << truncated >>, end |-> t]
        ELSE IF existing_event.colorId # color(m)
        THEN [kind |-> "update_color", crash |-> FALSE,
              calls |-> << UpdateCall(recolored) >>,
              local |-> << recolored >>, end |-> event_time_end]
        ELSE [kind |-> "noop", crash |-> FALSE, calls |-> << >>,
              local |-> << existing_event >>, end |-> event_time_end]

\* mutant: the end is pulled back to the clock without checking that the
\* event has started
update_finished_event_noguard(m, existing_event, t) ==
    IF ~Parsable(existing_event.start) \/ ~Parsable(existing_event.end)
    THEN Raised("error", << existing_event >>)
    ELSE
    LET event_time_end == from_google_date_to_datetime(existing_event.end)
        truncated == [existing_event EXCEPT !.end = isoformat(t),
                                            !.colorId = color(m)]
        recolored == [existing_event EXCEPT !.colorId = color(m)]
    IN  IF event_time_end > t
        THEN [kind |-> "update_finished", crash |-> FALSE,
              calls |-> << UpdateCall(truncated) >>,
              local |-> << truncated >>, end |-> t]
        ELSE IF existing_event.colorId # color(m)
        THEN [kind |-> "update_color", crash |-> FALSE,
              calls |-> << UpdateCall(recolored) >>,
              local |-> << recolored >>, end |-> event_time_end]
        ELSE [kind |-> "noop", crash |-> FALSE, calls |-> << >>,
              local |-> << existing_event >>, end |-> event_time_end]

\* mutant: the finished path writes the match's scheduled start too
update_finished_event_restart(m, existing_event, t) ==
    IF ~Parsable(existing_event.start) \/ ~Parsable(existing_event.end)
    THEN Raised("error", << existing_event >>)
    ELSE
    LET event_time_start == from_google_date_to_datetime(existing_event.start)
        event_time_end == from_google_date_to_datetime(existing_event.end)
        truncated == [existing_event EXCEPT !.start = isoformat(m.start),
                                            !.end = isoformat(t),
                                            !.colorId = color(m)]
        recolored == [existing_event EXCEPT !.start = isoformat(m.start),
                                            !.colorId = color(m)]
    IN  IF event_time_end > t /\ t > event_time_start
        THEN [kind |-> "update_finished", crash |-> FALSE,
              calls |-> << UpdateCall(truncated) >>,
              local |-> << truncated >>, end |-> t]
        ELSE IF existing_event.colorId # color(m)
        THEN [kind |-> "update_color", crash |-> FALSE,
              calls |-> << UpdateCall(recolored) >>,
              local |-> << recolored >>, end |-> event_time_end]
        ELSE [kind |-> "noop", crash |-> FALSE, calls |-> << >>,
              local |-> << existing_event >>, end |-> event_time_end]

\* mutant: the end is moved to the clock whenever it is not the clock
update_finished_event_ne(m, existing_event, t) ==
    IF ~Parsable(existing_event.start) \/ ~Parsable(existing_event.end)
    THEN Raised("error", << existing_event >>)
    ELSE
    LET event_time_start == from_google_date_to_datetime(existing_event.start)
        event_time_end == from_google_date_to_datetime(existing_event.end)
        truncated == [existing_event EXCEPT !.end = isoformat(t),
                                            !.colorId = color(m)]
        recolored == [existing_event EXCEPT !.colorId = color(m)]
    IN  IF event_time_end # t /\ t > event_time_start
        THEN [kind |-> "update_finished", crash |-> FALSE,
              calls |-> << UpdateCall(truncated) >>,
              local |-> << truncated >>, end |-> t]
        ELSE IF existing_event.colorId # color(m)
        THEN [kind |-> "update_color", crash |-> FALSE,
              calls |-> << UpdateCall(recolored) >>,
              local |-> << recolored >>, end |-> event_time_end]
        ELSE [kind |-> "noop", crash |-> FALSE, calls |-> << >>,
              local |-> << existing_event >>, end |-> event_time_end]

update_finished_event(m, existing_event, t) ==
    IF ~Parsable(existing_event.start) \/ ~Parsable(existing_event.end)
    THEN Raised("error", << existing_event >>)
    ELSE
    LET event_time_start == from_google_date_to_datetime(existing_event.start)
        event_time_end == from_google_date_to_datetime(existing_event.end)
        truncated == [existing_event EXCEPT !.end = isoformat(t),
                                            !.colorId = color(m)]
        recolored == [existing_event EXCEPT !.colorId = color(m)]
    IN  IF event_time_end > t /\ t > event_time_start
        THEN [kind |-> "update_finished", crash |-> FALSE,
              calls |-> << UpdateCall(truncated) >>,
              local |-> << truncated >>, end |-> t]
        ELSE IF existing_event.colorId # color(m)
        THEN [kind |-> "update_color", crash |-> FALSE,
              calls |-> << UpdateCall(recolored) >>,
              local |-> << recolored >>, end |-> event_time_end]
        ELSE [kind |-> "noop", crash |-> FALSE, calls |-> << >>,
              local |-> << existing_event >>, end |-> event_time_end]

\* mutant: an event correlates only when its start is the match's start too
match_event_by_start(evs, m) ==
    {i \in 1..Len(evs) : evs[i].summary = m.name /\ Instant(evs[i].start) = m.start}

\* line 205: the positions in the fetched list whose title is the match name
match_event(evs, m) == {i \in 1..Len(evs) : evs[i].summary = m.name}

\* lines 205-220: one iteration of the loop of update_calendar_events
loop_body(m, evs, t) ==
    LET found == match_event(evs, m)
    IN  IF Cardinality(found) > 1
        THEN Raised("conflict", << >>)
        ELSE IF Cardinality(found) = 0
        THEN create_event(m, t)
        ELSE LET existing_event == evs[CHOOSE i \in found : TRUE]
             IN  IF is_finished(m)
                 THEN update_finished_event(m, existing_event, t)
                 ELSE update_event(m, existing_event, t)

----------------------------------------------------------------------------
(* State machine: poll cycles of update_calendar_events on one calendar    *)
(*                                                                         *)
(*   now       the wall clock (what datetime.now() returns)                *)
(*   events    the provider's stored events of the calendar, by id         *)
(*   pc        "idle" between cycles, "loop" inside the for loop,          *)
(*             "crashed" after an exception left update_calendar_events    *)
(*   matches   the matches of the running cycle, idx the loop position     *)
(*   snapshot  the list fetched at the start of the cycle (its dicts are   *)
(*             changed in place by the update functions)                   *)
(*   calls     the insert/update calls of the running cycle, each with the *)
(*             loop position that made it                                  *)
(*   hist      per match name, the last two reconciliations of that name:   *)
(*             the clock, the match, what was done (kind), the existing     *)
(*             event given (pre), the end computed, the calls sent and the  *)
(*             stored event afterwards (post)                               *)
(*   env       the cycle count and what the environment has done so far    *)
(*   uc        the state of update_calendars (the loop over the tournaments, *)
(*             described with UcInit below); at rest while one calendar's    *)
(*             cycles are followed                                           *)

\* update_calendars before its first call:
\*   no_limit     args.no_limit, fixed when the process starts
\*   pc           "idle" between two calls, "loop" in the for loop over the
\*                tournaments, "urls" after the loop
\*   provider     the tournaments (numbered in download order) that have a
\*                calendar at the provider
\*   calendars    the dictionary built from the calendar list of this call
\*   tournaments  how many tournaments downloader.download() returned
\*   pos          the tournament the for loop is at
\*   id           the local counter of that name
\*   reconciled   the tournaments update_calendar_events was called for in
\*                this call, in order
UcInit(no_limit) ==
    [no_limit |-> no_limit, pc |-> "idle", provider |-> {}, calendars |-> {},
     tournaments |-> 0, pos |-> 1, id |-> 0, reconciled |-> << >>]

InitEvent(n) ==
    LET s == isoformat(22 * 60 * Minute)
        e == isoformat(22 * 60 * Minute + 90 * Minute)
    IN  [id |-> 0, summary |-> n, start |-> Stored(s), end |-> Stored(e),
         colorId |-> ColorOf("notstarted")]

\* the calendar before the first cycle: empty, one event, or two events
\* with the same title
InitEventLists ==
    { << >>,
      << [InitEvent("A") EXCEPT !.id = 1] >>,
      << [InitEvent("A") EXCEPT !.id = 1], [InitEvent("A") EXCEPT !.id = 2] >> }

UniqueTitles(evs) ==
    \A i, j \in 1..Len(evs) : evs[i].summary = evs[j].summary => i = j

UniqueNames(ms) ==
    \A i, j \in 1..Len(ms) : ms[i].name = ms[j].name => i = j

Init ==
    /\ now = T0
    /\ events \in InitEventLists
    /\ pc = "idle"
    /\ matches = << >>
    /\ idx = 1
    /\ snapshot = << >>
    /\ calls = << >>
    /\ hist = [n \in Names |-> << >>]
    /\ env = [cycle |-> 0, initUnique |-> UniqueTitles(events),
              namesUnique |-> TRUE, listedAll |-> TRUE]
    /\ uc = UcInit(TRUE)

\* datetime.now() moves on: by one tick at any point, by BigStep between
\* two cycles
Tick ==
    /\ pc # "crashed"
    /\ \/ /\ (now - T0) % BigStep < MaxSmallSteps
          /\ now' = now + 1
       \/ /\ pc = "idle"
          /\ (now - T0) \div BigStep < MaxBigSteps
          /\ now' = now + BigStep
    /\ UNCHANGED <<events, pc, matches, idx, snapshot, calls, hist, env, uc>>

\* lines 189-201: a cycle starts with the downloaded matches and fetches the
\* calendar's events once
StartCycle ==
    /\ pc = "idle"
    /\ env.cycle < MaxCycles
    /\ \E ms \in MatchLists :
         /\ matches' = ms
         /\ env' = [env EXCEPT !.cycle = @ + 1,
                               !.namesUnique = @ /\ UniqueNames(ms),
                               !.listedAll = @ /\ ListEvents(events, midnight(now)) = events]
    /\ snapshot' = ListEvents(events, midnight(now))
    /\ idx' = 1
    /\ calls' = << >>
    /\ pc' = "loop"
    /\ UNCHANGED <<now, events, hist, uc>>

LastTwo(h) == IF Len(h) > 2 THEN SubSeq(h, Len(h) - 1, Len(h)) ELSE h

TagCalls(cs, i) == [k \in 1..Len(cs) |-> [idx |-> i, call |-> cs[k]]]

\* the stored event of the match after the iteration (none after a raise)
PostEvent(evs, r, pre) ==
    IF r.crash THEN << >>
    ELSE IF pre = << >> THEN << evs[Len(evs)] >>
    ELSE << evs[pre[1].id] >>

\* the effect of one iteration whose result is r
Iterate(r) ==
    LET m == matches[idx]
        found == match_event(snapshot, m)
        pre == IF Cardinality(found) = 1
               THEN << snapshot[CHOOSE i \in found : TRUE] >> ELSE << >>
        evs == ProviderApplyAll(events, r.calls)
    IN  /\ events' = evs
        /\ snapshot' = IF r.local = << >> THEN snapshot
                       ELSE [snapshot EXCEPT ![CHOOSE i \in found : TRUE] = r.local[1]]
        /\ calls' = calls \o TagCalls(r.calls, idx)
        /\ hist' = [hist EXCEPT ![m.name] =
                      LastTwo(Append(@, [now |-> now, m |-> m, kind |-> r.kind,
                                         pre |-> pre, end |-> r.end, sent |-> r.calls,
                                         post |-> PostEvent(evs, r, pre)]))]
        /\ pc' = IF r.crash THEN "crashed" ELSE "loop"
        /\ idx' = IF r.crash THEN idx ELSE idx + 1
        /\ UNCHANGED <<now, matches, env, uc>>

InLoop == pc = "loop" /\ idx <= Len(matches)

\* lines 206-207: more than one event has the match's name
RaiseConflict ==
    /\ InLoop
    /\ Cardinality(match_event(snapshot, matches[idx])) > 1
    /\ Iterate(loop_body(matches[idx], snapshot, now))

\* lines 212-213
CreateEvent ==
    /\ InLoop
    /\ Cardinality(match_event(snapshot, matches[idx])) = 0
    /\ Iterate(loop_body(matches[idx], snapshot, now))

\* lines 217-218
UpdateFinishedEvent ==
    /\ InLoop
    /\ Cardinality(match_event(snapshot, matches[idx])) = 1
    /\ is_finished(matches[idx])
    /\ Iterate(loop_body(matches[idx], snapshot, now))

\* lines 219-220
UpdateEvent ==
    /\ InLoop
    /\ Cardinality(match_event(snapshot, matches[idx])) = 1
    /\ ~is_finished(matches[idx])
    /\ Iterate(loop_body(matches[idx], snapshot, now))

\* the for loop is exhausted and update_calendar_events returns: its locals
\* are gone
EndCycle ==
    /\ pc = "loop"
    /\ idx > Len(matches)
    /\ pc' = "idle"
    /\ matches' = << >>
    /\ idx' = 1
    /\ snapshot' = << >>
    /\ calls' = << >>
    /\ UNCHANGED <<now, events, hist, env, uc>>

Next ==
    \/ Tick
    \/ StartCycle
    \/ RaiseConflict
    \/ CreateEvent
    \/ UpdateFinishedEvent
    \/ UpdateEvent
    \/ EndCycle

Spec == Init /\ [][Next]_vars

----------------------------------------------------------------------------
(* State machine: the calls of update_calendars, one per minute (main).   *)
(* What update_calendar_events does to a tournament's calendar is the       *)
(* state machine above; here a call of it is recorded in uc.reconciled.     *)

recon == <<now, events, pc, matches, idx, snapshot, calls, hist, env>>

UcSpecInit ==
    /\ now = T0
    /\ events = << >>
    /\ pc = "idle"
    /\ matches = << >>
    /\ idx = 1
    /\ snapshot = << >>
    /\ calls = << >>
    /\ hist = [n \in Names |-> << >>]
    /\ env = [cycle |-> 0, initUnique |-> TRUE, namesUnique |-> TRUE,
              listedAll |-> TRUE]
    /\ \E no_limit \in BOOLEAN : uc = UcInit(no_limit)

\* lines 350-363: the calendar list is fetched and turned into a dictionary,
\* the tournaments are downloaded, id = 0
UcStart ==
    /\ uc.pc = "idle"
    /\ \E n \in 0..MaxTournaments :
          uc' = [uc EXCEPT !.pc = "loop", !.calendars = uc.provider,
                           !.tournaments = n, !.pos = 1, !.id = 0,
                           !.reconciled = << >>]
    /\ UNCHANGED recon

\* lines 366-374: the calendar of the tournament is looked up or created
\* and its events are reconciled
UcProcessed ==
    [uc EXCEPT !.provider = IF uc.pos \in uc.calendars THEN @
                            ELSE @ \cup {uc.pos},
               !.reconciled = Append(@, uc.pos)]

UcInLoop == uc.pc = "loop" /\ uc.pos <= uc.tournaments

\* lines 365-381: an iteration after which the loop goes on
UcIterate ==
    /\ UcInLoop
    /\ uc.no_limit \/ uc.id # DevLimit
    /\ uc' = [UcProcessed EXCEPT !.pos = @ + 1,
                                 !.id = IF uc.no_limit THEN @ ELSE @ + 1]
    /\ UNCHANGED recon

\* lines 365-380: an iteration that ends with the break
UcBreak ==
    /\ UcInLoop
    /\ ~uc.no_limit /\ uc.id = DevLimit
    /\ uc' = [UcProcessed EXCEPT !.pc = "urls"]
    /\ UNCHANGED recon

\* the tournaments are exhausted
UcLoopEnd ==
    /\ uc.pc = "loop"
    /\ uc.pos > uc.tournaments
    /\ uc' = [uc EXCEPT !.pc = "urls"]
    /\ UNCHANGED recon

\* lines 383-386 and 407: the calendar URLs are generated, update_calendars
\* returns and main sleeps until the next call
UcReturn ==
    /\ uc.pc = "urls"
    /\ uc' = [uc EXCEPT !.pc = "idle"]
    /\ UNCHANGED recon

UcNext ==
    \/ UcStart
    \/ UcIterate
    \/ UcBreak
    \/ UcLoopEnd
    \/ UcReturn

UcSpec == UcSpecInit /\ [][UcNext]_vars

----------------------------------------------------------------------------
(* Reading the history *)

\* the reconciliations of name n that are on record, oldest first
Recs(n) == {hist[n][i] : i \in 1..Len(hist[n])}

\* a record of the update path for a non-finished match (update_event ran)
OnUpdatePath(r) ==
    /\ r.pre # << >>
    /\ ~is_finished(r.m)
    /\ r.kind \in {"update", "noop"}

\* a record of the finished path (update_finished_event ran)
OnFinishedPath(r) ==
    /\ r.pre # << >>
    /\ is_finished(r.m)
    /\ r.kind \in {"update_finished", "update_color", "noop"}

\* name n was reconciled twice in a row, the second time on the event as the
\* first left it stored
FedBack(n) ==
    /\ Len(hist[n]) = 2
    /\ hist[n][1].post # << >>
    /\ hist[n][2].pre = hist[n][1].post

Baseline(m) == m.start + MATCH_DEFAULT_DURATION_MINUTES * Minute

\* an instant truncated to whole seconds
Trunc(t) == t - (t % Second)

\* the event dict is as the provider lists it (not one that an earlier
\* iteration of the same cycle has changed in place)
AsListed(ev) == ev.start.sfx = Zulu /\ ev.end.sfx = Zulu

----------------------------------------------------------------------------
(* Claims *)

\* C1: idempotence of the update path.  When a reconciliation of a
\* non-finished match yields an Update and the event as stored by that update
\* is reconciled again at the same clock value with the same match state, the
\* second reconciliation is a NoOp and sends no call.
C1_Idempotent ==
    \A n \in Names :
        (/\ FedBack(n)
         /\ hist[n][1].kind = "update"
         /\ hist[n][2].now = hist[n][1].now
         /\ hist[n][2].m = hist[n][1].m)
        => (hist[n][2].kind = "noop" /\ hist[n][2].sent = << >>)

C1_Witness ==
    \E n \in Names :
        /\ FedBack(n)
        /\ hist[n][1].kind = "update"
        /\ hist[n][1].end = hist[n][1].now + MATCH_EXTEND_MINUTES * Minute
        /\ hist[n][1].now % Second # 0
        /\ hist[n][2].now = hist[n][1].now
        /\ hist[n][2].m = hist[n][1].m
        /\ hist[n][2].kind = "noop"

\* C2: a correlation conflict is isolated to the offending match.  When
\* the cycle has stopped on a match whose name is the title of more than one
\* fetched event, that match has sent no call, and every other match of the
\* batch has been reconciled in that cycle.
C2_ConflictIsolated ==
    (/\ pc = "crashed"
     /\ Cardinality(match_event(snapshot, matches[idx])) > 1)
    => /\ \A k \in 1..Len(calls) : calls[k].idx # idx
       /\ \A j \in 1..Len(matches) :
              matches[j].name # matches[idx].name => j < idx

\* C3: monotonic end time for live matches.  When a live match is reconciled
\* at t1 and, still live and with the same scheduled start, again at t2 > t1
\* on the event as stored at t1, the end computed at t2 is never earlier than
\* the existing end it was given, and the stored end does not move backward.
C3_LiveEndMonotonic ==
    \A n \in Names :
        (/\ FedBack(n)
         /\ is_still_going(hist[n][1].m)
         /\ is_still_going(hist[n][2].m)
         /\ hist[n][2].m.start = hist[n][1].m.start
         /\ hist[n][1].now < hist[n][2].now)
        => /\ OnUpdatePath(hist[n][2])
           /\ hist[n][2].end >= Instant(hist[n][1].post[1].end)
           /\ Instant(hist[n][2].post[1].end) >= Instant(hist[n][1].post[1].end)

\* the end was extended past the clock at t1 and kept, not recomputed, at t2
C3_Witness ==
    \E n \in Names :
        /\ FedBack(n)
        /\ is_still_going(hist[n][1].m)
        /\ is_still_going(hist[n][2].m)
        /\ hist[n][2].m.start = hist[n][1].m.start
        /\ hist[n][1].now < hist[n][2].now
        /\ hist[n][1].end = hist[n][1].now + MATCH_EXTEND_MINUTES * Minute
        /\ Instant(hist[n][2].post[1].end) = Instant(hist[n][1].post[1].end)
        /\ Instant(hist[n][2].post[1].end) > Baseline(hist[n][2].m)

\* C4: finish convergence.  A finished match whose event has started before
\* the clock and is stored to end after it gets exactly one update call, with
\* end = now and the match's color; reconciled again at the same clock value
\* on the stored result, the end is not changed again (the only call still
\* possible changes the color alone).
C4_FinishConverges ==
    \A n \in Names :
        /\ \A r \in Recs(n) :
              (/\ r.pre # << >>
               /\ is_finished(r.m)
               /\ r.kind # "error"
               /\ Instant(r.pre[1].end) > r.now
               /\ r.now > Instant(r.pre[1].start))
              => /\ r.kind = "update_finished"
                 /\ Len(r.sent) = 1
                 /\ r.sent[1].op = "update"
                 /\ r.sent[1].id = r.pre[1].id
                 /\ r.sent[1].end = isoformat(r.now)
                 /\ r.sent[1].colorId = color(r.m)
        /\ (/\ FedBack(n)
            /\ hist[n][1].kind = "update_finished"
            /\ is_finished(hist[n][2].m)
            /\ hist[n][2].now = hist[n][1].now)
           => /\ hist[n][2].kind \in {"noop", "update_color"}
              /\ hist[n][2].post[1].end = hist[n][1].post[1].end
              /\ hist[n][2].m = hist[n][1].m => hist[n][2].kind = "noop"

C4_Witness ==
    \E n \in Names :
        /\ FedBack(n)
        /\ hist[n][1].kind = "update_finished"
        /\ is_finished(hist[n][2].m)
        /\ hist[n][2].now = hist[n][1].now
        /\ hist[n][2].kind = "noop"
        /\ hist[n][1].now % Second = 0

\* C5: no call carries an end before its start.  Every insert and update
\* call of the running cycle has end >= start.
C5_EndNotBeforeStart ==
    \A k \in 1..Len(calls) :
        Instant(calls[k].call.end) >= Instant(calls[k].call.start)

\* a finished match whose event starts after the clock was reconciled: the
\* end was not pulled back to the clock
C5_Witness ==
    \E n \in Names : \E r \in Recs(n) :
        /\ OnFinishedPath(r)
        /\ Instant(r.pre[1].start) > r.now
        /\ r.kind = "update_color"
        /\ \E k \in 1..Len(calls) : calls[k].call = r.sent[1]

\* C6: at most one event per title.  When the calendar started with at most
\* one event per title, no cycle so far was given the same match name twice
\* and every listing returned all stored events, no two stored events have
\* the same title, and every create on record was made for a name that had
\* no event in the cycle's fetched list.
C6_OneEventPerTitle ==
    (env.initUnique /\ env.namesUnique /\ env.listedAll)
    => /\ UniqueTitles(events)
       /\ \A n \in Names : \A r \in Recs(n) : r.kind = "create" => r.pre = << >>

\* two names each have their event, created in an earlier cycle and found
\* (not created again) in the next one
C6_Witness ==
    /\ env.initUnique /\ env.namesUnique /\ env.listedAll
    /\ env.cycle = 2
    /\ Len(events) = 2
    /\ events[1].summary # events[2].summary
    /\ \E n \in Names :
          /\ Len(hist[n]) = 2
          /\ hist[n][1].kind = "create"
          /\ hist[n][2].kind \in {"update", "noop"}

\* C7: each match of a cycle sends at most one create or update call, the
\* calls are sent in the order of the matches, and the list the matches are
\* reconciled against is the one fetched at the start of the cycle (it holds
\* none of the events the cycle has created).
C7_OneCallPerMatch ==
    /\ \A i \in 1..Len(matches) :
          Cardinality({k \in 1..Len(calls) : calls[k].idx = i}) <= 1
    /\ \A k \in 1..Len(calls) :
          /\ calls[k].idx <= idx
          /\ \A j \in 1..Len(calls) : j < k => calls[j].idx < calls[k].idx
    /\ LET created ==
               Cardinality({k \in 1..Len(calls) : calls[k].call.op = "insert"})
       IN  \A i \in 1..Len(snapshot) : snapshot[i].id <= Len(events) - created

\* a cycle of two matches has sent one call for each
C7_Witness ==
    /\ Len(matches) = 2
    /\ idx = 3
    /\ Len(calls) = 2
    /\ calls[1].call.op = "update"
    /\ calls[2].call.op = "insert"

\* C8: after a live match is reconciled at a clock value, on the creation or
\* the update path, the end of its event (as computed and as stored) is not
\* before that clock value.
C8_LiveEndNotPast ==
    \A n \in Names : \A r \in Recs(n) :
        (is_still_going(r.m) /\ r.kind \in {"create", "update", "noop"})
        => /\ r.end >= r.now
           /\ Instant(r.post[1].end) >= r.now

\* both paths have run for a live match that had outrun its end
C8_Witness ==
    \E n \in Names : \E r, q \in Recs(n) :
        /\ is_still_going(r.m) /\ r.kind = "create"
        /\ Baseline(r.m) < r.now
        /\ is_still_going(q.m) /\ q.kind = "update"
        /\ Instant(q.pre[1].end) < q.now

\* C9: timezone-suffix equivalence.  On the update path, a stored timestamp
\* spelled with "Z" and the computed one spelled with "+00:00" are judged
\* equal when they are the same instant; so when the match's start, the
\* computed end and the color denote the stored values, the result is a NoOp.
C9_SuffixEquivalence ==
    \A n \in Names : \A r \in Recs(n) :
        (/\ OnUpdatePath(r)
         /\ r.pre[1].start.sfx = Zulu
         /\ r.pre[1].end.sfx = Zulu)
        => /\ (Instant(r.pre[1].start) = r.m.start)
                 => ~different_start_times(r.pre[1], isoformat(r.m.start))
           /\ (Instant(r.pre[1].end) = r.end)
                 => ~different_end_times(r.pre[1], isoformat(r.end))
           /\ (/\ Instant(r.pre[1].start) = r.m.start
               /\ Instant(r.pre[1].end) = r.end
               /\ r.pre[1].colorId = color(r.m))
                 => r.kind = "noop"

C9_Witness ==
    \E n \in Names : \E r \in Recs(n) :
        /\ OnUpdatePath(r)
        /\ r.pre[1].start.sfx = Zulu
        /\ r.pre[1].end.sfx = Zulu
        /\ isoformat(r.m.start).sfx = PlusColon
        /\ isoformat(r.m.start) # r.pre[1].start
        /\ Instant(r.pre[1].start) = r.m.start
        /\ Instant(r.pre[1].end) = r.end
        /\ r.pre[1].colorId = color(r.m)
        /\ r.kind = "noop"

\* C10: one-directional end policy.  On the update path the computed end is
\* never earlier than the existing event's end, also when the scheduled start
\* has moved earlier than the stored start; and it is the baseline
\* scheduledStart + DEFAULT_DURATION only when the existing end is not after
\* that baseline.
C10_EndNeverRetracted ==
    \A n \in Names : \A r \in Recs(n) :
        OnUpdatePath(r)
        => /\ r.end >= Instant(r.pre[1].end)
           /\ r.end = Baseline(r.m) => Instant(r.pre[1].end) <= Baseline(r.m)
           /\ (Instant(r.pre[1].end) < Baseline(r.m)) => r.end >= Baseline(r.m)

\* the start moved earlier and the end stayed where it was, past the new
\* baseline
C10_Witness ==
    \E n \in Names : \E r \in Recs(n) :
        /\ OnUpdatePath(r)
        /\ r.m.start < Instant(r.pre[1].start)
        /\ r.kind = "update"
        /\ r.end = Instant(r.pre[1].end)
        /\ r.end > Baseline(r.m)

\* C11: decision of the update path.  For a non-finished match and its
\* existing event as listed by the provider, an update call is sent iff the
\* match's start, the computed end or the match's color differs (as instants
\* truncated to whole seconds) from the event's stored value; that one call
\* carries all three new values; otherwise the result is a NoOp, no call is
\* sent and the stored event stays as it was.
C11_UpdateIffDifferent ==
    \A n \in Names : \A r \in Recs(n) :
        (OnUpdatePath(r) /\ AsListed(r.pre[1]))
        => LET old == r.pre[1]
               differs ==
                   \/ Trunc(Instant(old.start)) # Trunc(r.m.start)
                   \/ Trunc(Instant(old.end)) # Trunc(r.end)
                   \/ old.colorId # color(r.m)
           IN  /\ r.kind = "update" <=> differs
               /\ r.kind = "update"
                     => r.sent = << [op |-> "update", id |-> old.id,
                                     summary |-> old.summary,
                                     start |-> isoformat(r.m.start),
                                     end |-> isoformat(r.end),
                                     colorId |-> color(r.m)] >>
               /\ r.kind = "noop" => (r.sent = << >> /\ r.post = r.pre)

\* on record for one name: an update sent for a change of color alone, and a
\* NoOp
C11_Witness ==
    \E n \in Names : \E r, q \in Recs(n) :
        /\ OnUpdatePath(r) /\ AsListed(r.pre[1])
        /\ r.kind = "update"
        /\ Instant(r.pre[1].start) = r.m.start
        /\ Instant(r.pre[1].end) = r.end
        /\ r.pre[1].colorId # color(r.m)
        /\ OnUpdatePath(q) /\ AsListed(q.pre[1])
        /\ q.kind = "noop"

\* C12: end rule of the update path.  With e1 the later of the existing end
\* and scheduled start + MATCH_DEFAULT_DURATION_MINUTES, the computed end is
\* e1 when the match is not live or e1 is not before the clock, and
\* clock + MATCH_EXTEND_MINUTES when the match is live and e1 is before the
\* clock; an update call carries that end.
C12_UpdateEndRule ==
    \A n \in Names : \A r \in Recs(n) :
        OnUpdatePath(r)
        => LET e1 == Max(Instant(r.pre[1].end), Baseline(r.m))
           IN  /\ (is_still_going(r.m) /\ e1 < r.now)
                     => r.end = r.now + MATCH_EXTEND_MINUTES * Minute
               /\ (~is_still_going(r.m) \/ e1 >= r.now) => r.end = e1
               /\ r.kind = "update" => r.sent[1].end = isoformat(r.end)

\* a live match whose event ended before the clock was extended, and a match
\* that is not live kept an end that lies before the clock
C12_Witness ==
    \E n \in Names : \E r, q \in Recs(n) :
        /\ OnUpdatePath(r)
        /\ is_still_going(r.m)
        /\ Instant(r.pre[1].end) >= Baseline(r.m)
        /\ Instant(r.pre[1].end) < r.now
        /\ r.end = r.now + MATCH_EXTEND_MINUTES * Minute
        /\ OnUpdatePath(q)
        /\ ~is_still_going(q.m)
        /\ q.end < q.now
        /\ q.end = Instant(q.pre[1].end)

\* C13: rule of the creation path.  A match whose name no fetched event has
\* gets one insert call with the match's name, its scheduled start and its
\* color; the end is scheduled start + MATCH_DEFAULT_DURATION_MINUTES, except
\* that for a live match with that baseline before the clock it is
\* clock + MATCH_EXTEND_MINUTES.  The event is stored with those values.
C13_CreateRule ==
    \A n \in Names : \A r \in Recs(n) :
        (r.pre = << >> /\ r.kind # "conflict")
        => LET end == IF is_still_going(r.m) /\ Baseline(r.m) < r.now
                      THEN r.now + MATCH_EXTEND_MINUTES * Minute
                      ELSE Baseline(r.m)
           IN  /\ r.kind = "create"
               /\ r.end = end
               /\ r.sent = << [op |-> "insert", id |-> 0, summary |-> r.m.name,
                               start |-> isoformat(r.m.start),
                               end |-> isoformat(end),
                               colorId |-> color(r.m)] >>
               /\ r.post[1].summary = r.m.name
               /\ Instant(r.post[1].start) = r.m.start
               /\ Instant(r.post[1].end) = Trunc(end)
               /\ r.post[1].colorId = color(r.m)

\* one name was created live past its baseline, the other created with the
\* baseline as its end
C13_Witness ==
    \E n, k \in Names : \E r \in Recs(n) : \E q \in Recs(k) :
        /\ r.kind = "create"
        /\ is_still_going(r.m)
        /\ Baseline(r.m) < r.now
        /\ r.end = r.now + MATCH_EXTEND_MINUTES * Minute
        /\ q.kind = "create"
        /\ q.end = Baseline(q.m)
        /\ q.end > q.now

\* C14: decision table of the finished path.  For a finished match with an
\* existing event: (1) when the event's end is after the clock and the clock
\* is after its start, one update call sets end = clock and the match's
\* color; (2) otherwise, when the color differs, one update call sets the
\* color and carries start and end as they were; (3) otherwise no call is
\* sent.  In no branch is the event's start changed.
C14_FinishedDecision ==
    \A n \in Names : \A r \in Recs(n) :
        OnFinishedPath(r)
        => LET old == r.pre[1]
               running == Instant(old.end) > r.now /\ r.now > Instant(old.start)
               call(end) == [op |-> "update", id |-> old.id,
                             summary |-> old.summary, start |-> old.start,
                             end |-> end, colorId |-> color(r.m)]
           IN  /\ running
                     => (r.kind = "update_finished"
                            /\ r.sent = << call(isoformat(r.now)) >>)
               /\ (~running /\ old.colorId # color(r.m))
                     => (r.kind = "update_color" /\ r.sent = << call(old.end) >>
                            /\ r.post[1].end = old.end)
               /\ (~running /\ old.colorId = color(r.m))
                     => (r.kind = "noop" /\ r.sent = << >> /\ r.post = r.pre)
               /\ r.post[1].start = old.start
               /\ r.post[1].colorId = color(r.m)

\* a finished match whose scheduled start is not the event's start had its
\* event cut back to the clock, the start staying where it was
C14_Witness ==
    \E n \in Names : \E r \in Recs(n) :
        /\ OnFinishedPath(r)
        /\ r.kind = "update_finished"
        /\ r.m.start # Instant(r.pre[1].start)
        /\ Instant(r.post[1].end) = Trunc(r.now)
        /\ r.post[1].start = r.pre[1].start

\* C15: the end of a finished match's event never drifts forward.  Every
\* reconciliation of a finished match with an existing event leaves the stored
\* end where it was or moves it back to the clock, never later; and over two
\* reconciliations in a row of a match that stays finished, the later one on
\* the event as the earlier one left it, the stored end does not grow.
C15_FinishedEndNoDrift ==
    \A n \in Names :
        /\ \A r \in Recs(n) :
              OnFinishedPath(r)
              => /\ Instant(r.post[1].end) <= Instant(r.pre[1].end)
                 /\ \/ r.post[1].end = r.pre[1].end
                    \/ Instant(r.post[1].end) = Trunc(r.now)
        /\ (/\ FedBack(n)
            /\ OnFinishedPath(hist[n][1])
            /\ is_finished(hist[n][2].m))
           => /\ OnFinishedPath(hist[n][2])
              /\ Instant(hist[n][2].post[1].end) <= Instant(hist[n][1].post[1].end)

\* the event was cut back to the clock in one cycle and, the match still
\* finished, kept that end in a later cycle, the clock then being past it
C15_Witness ==
    \E n \in Names :
        /\ FedBack(n)
        /\ OnFinishedPath(hist[n][1])
        /\ OnFinishedPath(hist[n][2])
        /\ hist[n][1].kind = "update_finished"
        /\ hist[n][1].now < hist[n][2].now
        /\ Instant(hist[n][2].pre[1].end) < hist[n][2].now
        /\ hist[n][2].post[1].end = hist[n][1].post[1].end

\* C16: event identity is stable.  No step removes a stored event or changes
\* the id or the title of one, so the set of (id, title) pairs only grows; and
\* every update call a step sends is addressed to the id of a stored event
\* whose title is the call's title and the name of the match being reconciled.
C16_IdentityStable ==
    [][ /\ Len(events') >= Len(events)
        /\ \A i \in 1..Len(events) :
              /\ events'[i].id = events[i].id
              /\ events'[i].summary = events[i].summary
        /\ \A k \in (Len(calls) + 1)..Len(calls') :
              calls'[k].call.op = "update"
              => /\ calls'[k].call.id \in 1..Len(events)
                 /\ events[calls'[k].call.id].id = calls'[k].call.id
                 /\ events[calls'[k].call.id].summary = calls'[k].call.summary
                 /\ calls'[k].call.summary = matches[calls'[k].idx].name
      ]_vars

\* the calendar holds two events with different titles and the running cycle
\* has sent an update to the second one
C16_Witness ==
    /\ Len(events) = 2
    /\ events[1].summary # events[2].summary
    /\ \E k \in 1..Len(calls) :
          /\ calls[k].call.op = "update"
          /\ calls[k].call.id = 2
          /\ events[2].summary = calls[k].call.summary

\* C18: a match that no fetched event correlates with takes the creation
\* path whatever its status.  For a finished match that means exactly one
\* insert call whose end is scheduled start + MATCH_DEFAULT_DURATION_MINUTES,
\* not cut back to the clock, also when that end is after the clock; the
\* finished rule is applied to the event only by a later reconciliation that
\* finds it.
C18_FinishedWithoutEventCreated ==
    \A n \in Names :
        /\ \A r \in Recs(n) :
              (r.pre = << >> /\ r.kind # "conflict")
              => /\ r.kind = "create"
                 /\ Len(r.sent) = 1
                 /\ r.sent[1].op = "insert"
                 /\ is_finished(r.m)
                       => /\ r.sent[1].end = isoformat(Baseline(r.m))
                          /\ Instant(r.post[1].end) = Baseline(r.m)
        /\ (/\ FedBack(n)
            /\ hist[n][1].kind = "create"
            /\ is_finished(hist[n][1].m)
            /\ is_finished(hist[n][2].m))
           => /\ OnFinishedPath(hist[n][2])
              /\ (/\ Instant(hist[n][2].pre[1].end) > hist[n][2].now
                  /\ hist[n][2].now > Instant(hist[n][2].pre[1].start))
                    => Instant(hist[n][2].post[1].end) = Trunc(hist[n][2].now)

\* a finished match without event got an event ending after the clock; the
\* next reconciliation found it and cut it back
C18_Witness ==
    \E n \in Names :
        /\ FedBack(n)
        /\ hist[n][1].kind = "create"
        /\ is_finished(hist[n][1].m)
        /\ Instant(hist[n][1].post[1].end) > hist[n][1].now
        /\ hist[n][1].now > hist[n][1].m.start
        /\ hist[n][2].kind = "update_finished"

\* C19: after a non-finished match with an existing event has been
\* reconciled, by an update or a NoOp, the stored event starts at the match's
\* scheduled start and does not end before
\* scheduled start + MATCH_DEFAULT_DURATION_MINUTES.
C19_StartAndMinimumEnd ==
    \A n \in Names : \A r \in Recs(n) :
        OnUpdatePath(r)
        => /\ Instant(r.post[1].start) = r.m.start
           /\ Instant(r.post[1].end) >= Baseline(r.m)

\* an event that started elsewhere and ended before the baseline was moved,
\* and an event was left as it was by a NoOp
C19_Witness ==
    \E n \in Names : \E r, q \in Recs(n) :
        /\ OnUpdatePath(r)
        /\ r.kind = "update"
        /\ Instant(r.pre[1].start) # r.m.start
        /\ Instant(r.pre[1].end) < Baseline(r.m)
        /\ Instant(r.post[1].start) = r.m.start
        /\ OnUpdatePath(q)
        /\ q.kind = "noop"

\* C17: the development limit.  When --no-limit is not given, one call of
\* update_calendars reconciles the events of the first 10 tournaments at
\* most: the tournaments reconciled so far in the call are never more than 10.
C17_FirstTenOnly ==
    ~uc.no_limit => Len(uc.reconciled) <= 10

====
